---- MODULE Spec2Model ----
(***************************************************************************)
(* Model of the input-mgr crate of tosc-rs/teletype.                       *)
(*                                                                         *)
(*   Bricks   (src/bricks.rs, and the older copy inside src/lib.rs): an    *)
(*            array of L slot indices split by three cursors into the      *)
(*            local-editing, remote-editing, history and free zones.       *)
(*   Line     (src/lines.rs): fill counter, C bytes, source tag.           *)
(*   RingLine (src/lib.rs): L lines plus one Bricks.                       *)
(*                                                                         *)
(* Rust slices are 0-based and half open; TLA+ sequences are 1-based, so   *)
(* the slice s[a..b] is SubSeq(s, a+1, b) and s[i] is s[i+1].  Both copies *)
(* of Bricks are modelled on one record shape (the field names of          *)
(* bricks.rs); the copy in lib.rs calls local_editable_end                 *)
(* user_editable_end and remote_editable_end inco_editable_end.            *)
(***************************************************************************)
EXTENDS Integers, Sequences, FiniteSets, TLC

\* const generic L of Bricks<L> / RingLine<L, C>: number of lines
L == 4

\* const generic C of Line<C> / RingLine<L, C>: bytes per line
C == 2

\* bytes the input source hands to append_*_char: 'a' and '\n'
Bytes == {97, 10}

\* bytes typed in the runs that record submissions: 'a', 'b' and '\n'
TypedBytes == {97, 98, 10}

\* longest sequence of RingLine calls explored
MaxCalls == 9

\* longest sequence of RingLine calls explored while recording submissions
MaxLoggedCalls == 8

\* const generic C of the Line<C> exercised on its own
LineC == 3

\* const generic C of a Line<C> whose capacity the u8 fill cannot count
BigC == 256

\* bytes handed to push, insert and overwrite of that line: '\n', 'a', 'b'
\* and the non-ASCII 0x80
LineBytes == {10, 97, 98, 128}

\* bytes of the strings handed to extend: 'a', 'b' and '\n'
ExtendBytes == {97, 98, 10}

VARIABLES
    brick,   \* RingLine.brick / the Bricks under test
    lines,   \* RingLine.lines : slot -> Line
    call,    \* the last call made: name, argument and returned value
    test_line,  \* the Line exercised on its own
    prev,    \* brick, lines and line as they were when that call was made
    ncalls,  \* number of RingLine calls made so far
    log,     \* the lines submitted so far, oldest first: <<party, text>>
    evicted, \* TRUE once an insert has recycled a history line
    twin     \* lib.rs's copy of the engine, run beside bricks.rs's

vars == <<brick, lines, test_line, call, prev, ncalls, log, evicted, twin>>

----------------------------------------------------------------------------
(* Result<T, E> values *)

Ok(v) == [ok |-> TRUE, val |-> v, err |-> "none"]

Err(e) == [ok |-> FALSE, val |-> 0, err |-> e]

----------------------------------------------------------------------------
(* rotation primitives, lib.rs *)
\* rot_right that shifts the slice up but never writes the saved last value
rot_right_no_write(sli) ==
    IF Len(sli) <= 1
    THEN sli
    ELSE <<sli[1]>> \o SubSeq(sli, 1, Len(sli) - 1)

rot_right(sli) ==
    IF Len(sli) <= 1
    THEN sli
    ELSE <<sli[Len(sli)]>> \o SubSeq(sli, 1, Len(sli) - 1)

rot_left(sli) ==
    IF Len(sli) <= 1
    THEN sli
    ELSE SubSeq(sli, 2, Len(sli)) \o <<sli[1]>>

\* rot_right(&mut s[from..to]): the slice rotated in place
RotRightSlice(s, from, to) ==
    SubSeq(s, 1, from) \o rot_right(SubSeq(s, from + 1, to))
                       \o SubSeq(s, to + 1, Len(s))

\* rot_left(&mut s[from..to]): the slice rotated in place
RotLeftSlice(s, from, to) ==
    SubSeq(s, 1, from) \o rot_left(SubSeq(s, from + 1, to))
                       \o SubSeq(s, to + 1, Len(s))

Min(a, b) == IF a < b THEN a ELSE b

RECURSIVE RotRightTimes(_, _)
\* `for _ in 0..n { rot_right(range) }`
RotRightTimes(range, n) ==
    IF n <= 0 THEN range ELSE RotRightTimes(rot_right(range), n - 1)

----------------------------------------------------------------------------
(* Bricks, bricks.rs *)

Bricks_new ==
    [idx_buf |-> [i \in 1..L |-> i - 1],
     local_editable_end |-> 0,
     remote_editable_end |-> 0,
     history_end |-> 0]

iter_local_editable(b) == SubSeq(b.idx_buf, 1, b.local_editable_end)

iter_remote_editable(b) ==
    SubSeq(b.idx_buf, b.local_editable_end + 1, b.remote_editable_end)

iter_history(b) == SubSeq(b.idx_buf, b.remote_editable_end + 1, b.history_end)

\* idx_buf[history_end..]: the slots no zone uses
FreeZone(b) == SubSeq(b.idx_buf, b.history_end + 1, L)\* pop_local_editable_front leaving history_end where it was
pop_local_keeps_history_end(b) ==
    IF b.local_editable_end = 0
    THEN b
    ELSE [idx_buf |-> RotLeftSlice(b.idx_buf, 0, b.history_end),
          local_editable_end |-> b.local_editable_end - 1,
          remote_editable_end |-> b.remote_editable_end - 1,
          history_end |-> b.history_end]

\* pop_local_editable_front rotating one slot past the history, as
\* pop_ue_front of lib.rs does
pop_local_wide_range(b) ==
    IF b.local_editable_end = 0
    THEN b
    ELSE [idx_buf |-> RotLeftSlice(b.idx_buf, 0, Min(b.history_end + 1, L)),
          local_editable_end |-> b.local_editable_end - 1,
          remote_editable_end |-> b.remote_editable_end - 1,
          history_end |-> b.history_end - 1]

\* LineIter { bricks, collection }: a slice of idx and the caller's items,
\* which are indexed from 0
LineIter(bricks, t) == [bricks |-> bricks, collection |-> t]

\* LineIter::next taking the last slot of the slice instead of the first
LineIter_next_from_back(it) ==
    IF it.bricks = <<>>
    THEN [self |-> it, ret |-> Err("None")]
    ELSE LET now == it.bricks[Len(it.bricks)]
         IN  [self |-> [it EXCEPT !.bricks = SubSeq(@, 1, Len(@) - 1)],
              ret |-> IF now \in DOMAIN it.collection
                      THEN Ok(it.collection[now])
                      ELSE Err("None")]

\* split_first()?, then collection.get(*now)
LineIter_next(it) ==
    IF it.bricks = <<>>
    THEN [self |-> it, ret |-> Err("None")]
    ELSE LET now == Head(it.bricks)
         IN  [self |-> [it EXCEPT !.bricks = Tail(@)],
              ret |-> IF now \in DOMAIN it.collection
                      THEN Ok(it.collection[now])
                      ELSE Err("None")]

\* LineIterMut::next: the item at col_ptr.add(*now), named by its offset
LineIterMut_next(it) ==
    IF it.bricks = <<>>
    THEN [self |-> it, ret |-> Err("None")]
    ELSE [self |-> [it EXCEPT !.bricks = Tail(@)],
          ret |-> Ok(Head(it.bricks))]

RECURSIVE collect(_)
\* Iterator::collect: the items next() yields until it answers None
collect(it) ==
    LET n == LineIter_next(it)
    IN  IF n.ret.ok THEN <<n.ret.val>> \o collect(n.self) ELSE <<>>

RECURSIVE collect_mut(_)
\* Iterator::collect on a LineIterMut: the offsets of the items it yields
collect_mut(it) ==
    LET n == LineIterMut_next(it)
    IN  IF n.ret.ok THEN <<n.ret.val>> \o collect_mut(n.self) ELSE <<>>

\* the items of the test smoke: buf = [10, 20, .., 10 * L]
TestBuf == [s \in 0..(L - 1) |-> 10 * (s + 1)]

pop_local_editable_front(b) ==
    IF b.local_editable_end = 0
    THEN b
    ELSE [idx_buf |-> RotLeftSlice(b.idx_buf, 0, b.history_end),
          local_editable_end |-> b.local_editable_end - 1,
          remote_editable_end |-> b.remote_editable_end - 1,
          history_end |-> b.history_end - 1]
\* pop_remote_editable_front rotating from the start of the array
pop_remote_from_zero(b) ==
    IF b.remote_editable_end = b.local_editable_end
    THEN b
    ELSE [idx_buf |-> RotLeftSlice(b.idx_buf, 0, b.history_end),
          local_editable_end |-> b.local_editable_end,
          remote_editable_end |-> b.remote_editable_end - 1,
          history_end |-> b.history_end - 1]

pop_remote_editable_front(b) ==
    IF b.remote_editable_end = b.local_editable_end
    THEN b
    ELSE [idx_buf |-> RotLeftSlice(b.idx_buf, b.local_editable_end, b.history_end),
          local_editable_end |-> b.local_editable_end,
          remote_editable_end |-> b.remote_editable_end - 1,
          history_end |-> b.history_end - 1]

local_editable_front(b) ==
    IF b.local_editable_end = 0 THEN Err("None") ELSE Ok(b.idx_buf[1])

remote_editable_front(b) ==
    IF b.remote_editable_end = b.local_editable_end
    THEN Err("None")
    ELSE Ok(b.idx_buf[b.local_editable_end + 1])
\* insert_local_editable_front rotating only the slots in use
insert_local_short_range(b) ==
    IF b.local_editable_end = L
    THEN [self |-> b, ret |-> Err("unit")]
    ELSE LET idx == RotRightSlice(b.idx_buf, 0, b.history_end)
         IN  [self |-> [idx_buf |-> idx,
                        local_editable_end |-> Min(b.local_editable_end + 1, L),
                        remote_editable_end |-> Min(b.remote_editable_end + 1, L),
                        history_end |-> Min(b.history_end + 1, L)],
              ret |-> Ok(idx[1])]

\* insert_local_editable_front refusing once local and remote fill the array
insert_local_remote_guard(b) ==
    IF b.remote_editable_end = L
    THEN [self |-> b, ret |-> Err("unit")]
    ELSE LET end == Min(b.history_end + 1, L)
             idx == RotRightSlice(b.idx_buf, 0, end)
         IN  [self |-> [idx_buf |-> idx,
                        local_editable_end |-> Min(b.local_editable_end + 1, L),
                        remote_editable_end |-> Min(b.remote_editable_end + 1, L),
                        history_end |-> Min(b.history_end + 1, L)],
              ret |-> Ok(idx[1])]

\* insert_local_editable_front with the cursors not clamped to L
insert_local_unclamped(b) ==
    IF b.local_editable_end = L
    THEN [self |-> b, ret |-> Err("unit")]
    ELSE LET end == Min(b.history_end + 1, L)
             idx == RotRightSlice(b.idx_buf, 0, end)
         IN  [self |-> [idx_buf |-> idx,
                        local_editable_end |-> b.local_editable_end + 1,
                        remote_editable_end |-> b.remote_editable_end + 1,
                        history_end |-> b.history_end + 1],
              ret |-> Ok(idx[1])]

insert_local_editable_front(b) ==
    IF b.local_editable_end = L
    THEN [self |-> b, ret |-> Err("unit")]
    ELSE LET end == Min(b.history_end + 1, L)
             idx == RotRightSlice(b.idx_buf, 0, end)
         IN  [self |-> [idx_buf |-> idx,
                        local_editable_end |-> Min(b.local_editable_end + 1, L),
                        remote_editable_end |-> Min(b.remote_editable_end + 1, L),
                        history_end |-> Min(b.history_end + 1, L)],
              ret |-> Ok(idx[1])]

\* insert_remote_editable_front rotating idx_buf[local_end..history_end], without
\* the slot after the history
insert_remote_short_range(b) ==
    IF b.remote_editable_end = L
    THEN [self |-> b, ret |-> Err("unit")]
    ELSE LET end == Min(b.history_end, L)
             idx == RotRightSlice(b.idx_buf, b.local_editable_end, end)
         IN  [self |-> [idx_buf |-> idx,
                        local_editable_end |-> b.local_editable_end,
                        remote_editable_end |-> Min(b.remote_editable_end + 1, L),
                        history_end |-> Min(b.history_end + 1, L)],
              ret |-> Ok(idx[b.local_editable_end + 1])]

\* insert_remote_editable_front rotating from the start of idx_buf
insert_remote_from_zero(b) ==
    IF b.remote_editable_end = L
    THEN [self |-> b, ret |-> Err("unit")]
    ELSE LET end == Min(b.history_end + 1, L)
             idx == RotRightSlice(b.idx_buf, 0, end)
         IN  [self |-> [idx_buf |-> idx,
                        local_editable_end |-> b.local_editable_end,
                        remote_editable_end |-> Min(b.remote_editable_end + 1, L),
                        history_end |-> Min(b.history_end + 1, L)],
              ret |-> Ok(idx[b.local_editable_end + 1])]

insert_remote_editable_front(b) ==
    IF b.remote_editable_end = L
    THEN [self |-> b, ret |-> Err("unit")]
    ELSE LET end == Min(b.history_end + 1, L)
             idx == RotRightSlice(b.idx_buf, b.local_editable_end, end)
         IN  [self |-> [idx_buf |-> idx,
                        local_editable_end |-> b.local_editable_end,
                        remote_editable_end |-> Min(b.remote_editable_end + 1, L),
                        history_end |-> Min(b.history_end + 1, L)],
              ret |-> Ok(idx[b.local_editable_end + 1])]
\* submit_local_editable with a loop over 0..=n: one rotation too many
submit_local_one_more(b) ==
    LET range == SubSeq(b.idx_buf, 1, b.remote_editable_end)
        n == b.remote_editable_end - b.local_editable_end + 1
    IN  [idx_buf |-> RotRightTimes(range, n)
                        \o SubSeq(b.idx_buf, b.remote_editable_end + 1, L),
         local_editable_end |-> 0,
         remote_editable_end |-> b.remote_editable_end - b.local_editable_end,
         history_end |-> b.history_end]

\* submit_local_editable rotating once per local entry
submit_local_per_local(b) ==
    LET range == SubSeq(b.idx_buf, 1, b.remote_editable_end)
        n == b.local_editable_end
    IN  [idx_buf |-> RotRightTimes(range, n)
                        \o SubSeq(b.idx_buf, b.remote_editable_end + 1, L),
         local_editable_end |-> 0,
         remote_editable_end |-> b.remote_editable_end - b.local_editable_end,
         history_end |-> b.history_end]
\* submit_local_editable rotating once, whatever the two zones hold
submit_local_single_turn(b) ==
    LET range == SubSeq(b.idx_buf, 1, b.remote_editable_end)
        n == 1
    IN  [idx_buf |-> RotRightTimes(range, n)
                        \o SubSeq(b.idx_buf, b.remote_editable_end + 1, L),
         local_editable_end |-> 0,
         remote_editable_end |-> b.remote_editable_end - b.local_editable_end,
         history_end |-> b.history_end]

submit_local_editable(b) ==
    LET range == SubSeq(b.idx_buf, 1, b.remote_editable_end)
        n == b.remote_editable_end - b.local_editable_end
    IN  [idx_buf |-> RotRightTimes(range, n)
                        \o SubSeq(b.idx_buf, b.remote_editable_end + 1, L),
         local_editable_end |-> 0,
         remote_editable_end |-> b.remote_editable_end - b.local_editable_end,
         history_end |-> b.history_end]
\* submit_remote_editable releasing one remote entry per call
submit_remote_one_per_call(b) ==
    [b EXCEPT !.remote_editable_end =
        IF b.remote_editable_end > b.local_editable_end
        THEN b.remote_editable_end - 1
        ELSE b.remote_editable_end]

\* submit_remote_editable closing the remote zone at 0
submit_remote_to_zero(b) ==
    [b EXCEPT !.remote_editable_end = 0]

submit_remote_editable(b) ==
    [b EXCEPT !.remote_editable_end = b.local_editable_end]

----------------------------------------------------------------------------
(* Bricks, the copy in lib.rs that RingLine calls *)

ue_front(b) ==
    IF b.local_editable_end = 0 THEN Err("None") ELSE Ok(b.idx_buf[1])

ie_front(b) ==
    IF b.remote_editable_end = b.local_editable_end
    THEN Err("None")
    ELSE Ok(b.idx_buf[b.local_editable_end + 1])
\* pop_ue_front rotating only the local zone
pop_ue_local_only(b) ==
    IF b.local_editable_end = 0
    THEN b
    ELSE [idx_buf |-> RotLeftSlice(b.idx_buf, 0, b.local_editable_end),
          local_editable_end |-> b.local_editable_end - 1,
          remote_editable_end |-> b.remote_editable_end - 1,
          history_end |-> b.history_end - 1]

pop_ue_front(b) ==
    IF b.local_editable_end = 0
    THEN b
    ELSE LET end == Min(b.history_end + 1, L)
         IN  [idx_buf |-> RotLeftSlice(b.idx_buf, 0, end),
              local_editable_end |-> b.local_editable_end - 1,
              remote_editable_end |-> b.remote_editable_end - 1,
              history_end |-> b.history_end - 1]

insert_ue_front(b) ==
    IF b.local_editable_end = L
    THEN [self |-> b, ret |-> Err("unit")]
    ELSE LET end == Min(b.history_end + 1, L)
             idx == RotRightSlice(b.idx_buf, 0, end)
         IN  [self |-> [idx_buf |-> idx,
                        local_editable_end |-> Min(b.local_editable_end + 1, L),
                        remote_editable_end |-> Min(b.remote_editable_end + 1, L),
                        history_end |-> Min(b.history_end + 1, L)],
              ret |-> Ok(idx[1])]

\* insert_ie_front refusing as soon as no slot is free
insert_ie_needs_free(b) ==
    IF b.history_end = L
    THEN [self |-> b, ret |-> Err("unit")]
    ELSE LET end == Min(b.history_end + 1, L)
             idx == RotRightSlice(b.idx_buf, b.local_editable_end, end)
         IN  [self |-> [idx_buf |-> idx,
                        local_editable_end |-> b.local_editable_end,
                        remote_editable_end |-> Min(b.remote_editable_end + 1, L),
                        history_end |-> Min(b.history_end + 1, L)],
              ret |-> Ok(idx[b.local_editable_end + 1])]

insert_ie_front(b) ==
    IF b.remote_editable_end = L
    THEN [self |-> b, ret |-> Err("unit")]
    ELSE LET end == Min(b.history_end + 1, L)
             idx == RotRightSlice(b.idx_buf, b.local_editable_end, end)
         IN  [self |-> [idx_buf |-> idx,
                        local_editable_end |-> b.local_editable_end,
                        remote_editable_end |-> Min(b.remote_editable_end + 1, L),
                        history_end |-> Min(b.history_end + 1, L)],
              ret |-> Ok(idx[b.local_editable_end + 1])]

\* release_ue rotating once per local entry
release_ue_per_local(b) ==
    LET range == SubSeq(b.idx_buf, 1, b.remote_editable_end)
        n == b.local_editable_end
    IN  [idx_buf |-> RotRightTimes(range, n)
                        \o SubSeq(b.idx_buf, b.remote_editable_end + 1, L),
         local_editable_end |-> 0,
         remote_editable_end |-> b.remote_editable_end - b.local_editable_end,
         history_end |-> b.history_end]

release_ue(b) ==
    LET range == SubSeq(b.idx_buf, 1, b.remote_editable_end)
        n == b.remote_editable_end - b.local_editable_end
    IN  [idx_buf |-> RotRightTimes(range, n)
                        \o SubSeq(b.idx_buf, b.remote_editable_end + 1, L),
         local_editable_end |-> 0,
         remote_editable_end |-> b.remote_editable_end - b.local_editable_end,
         history_end |-> b.history_end]
\* release_ie giving up the local lines too
release_ie_to_zero(b) ==
    [b EXCEPT !.remote_editable_end = 0]

release_ie(b) ==
    [b EXCEPT !.remote_editable_end = b.local_editable_end]

----------------------------------------------------------------------------
(* Line, lines.rs *)

Line_new == [fill |-> 0, buf |-> [i \in 1..C |-> 0], status |-> "Local"]

\* Line::<LineC>::new(), the line of the test smoke_line
TestLine_new ==
    [fill |-> 0, buf |-> [i \in 1..LineC |-> 0], status |-> "Local"]

\* Line::<BigC>::new(): new() has no test of C, and nothing calls cap_u8
BigLine_new ==
    [fill |-> 0, buf |-> [i \in 1..BigC |-> 0], status |-> "Local"]

\* the const generic C of this Line<C>: the length of its buf
Cap(line) == Len(line.buf)

clear(line) == [line EXCEPT !.fill = 0, !.status = "Local"]

set_status(line, source) == [line EXCEPT !.status = source]

len(line) == line.fill

is_empty(line) == line.fill = 0\* is_full answering one byte early
is_full_early(line) == len(line) >= Cap(line) - 1

is_full(line) == len(line) >= Cap(line)
\* pop without the test for an empty line
pop_unchecked(line) == [line EXCEPT !.fill = (line.fill - 1) % 256]

pop(line) == IF line.fill # 0 THEN [line EXCEPT !.fill = line.fill - 1] ELSE line

\* buf[..len] read as text; the bytes are ASCII, so from_utf8 does not fail
as_str(line) == SubSeq(line.buf, 1, len(line))
\* acceptable_ascii letting DEL through
acceptable_ascii_with_del(c) == c < 128 /\ ~(c < 32)

\* u8::is_ascii() && !u8::is_ascii_control()
acceptable_ascii(c) == c < 128 /\ ~(c < 32 \/ c = 127)

ascii_good(c) == IF acceptable_ascii(c) THEN Ok(0) ELSE Err("InvalidChar")

not_full(line) == IF is_full(line) THEN Err("Full") ELSE Ok(0)

\* `x as u8`, and u8 arithmetic that wraps (a build without overflow checks)
as_u8(x) == x % 256
\* push testing the character before the room
push_chars_first(line, ins) ==
    IF ~ascii_good(ins).ok
    THEN [self |-> line, ret |-> ascii_good(ins)]
    ELSE IF ~not_full(line).ok
    THEN [self |-> line, ret |-> not_full(line)]
    ELSE [self |-> [line EXCEPT !.buf[len(line) + 1] = ins,
                                !.fill = as_u8(line.fill + 1)],
          ret |-> Ok(0)]

push(line, ins) ==
    IF ~not_full(line).ok
    THEN [self |-> line, ret |-> not_full(line)]
    ELSE IF ~ascii_good(ins).ok
    THEN [self |-> line, ret |-> ascii_good(ins)]
    ELSE [self |-> [line EXCEPT !.buf[len(line) + 1] = ins,
                                !.fill = as_u8(line.fill + 1)],
          ret |-> Ok(0)]

\* extend testing the characters before the room
extend_chars_first(line, s) ==
    IF ~(\A i \in 1..Len(s) : acceptable_ascii(s[i]))
    THEN [self |-> line, ret |-> Err("InvalidChar")]
    ELSE IF len(line) + Len(s) > Cap(line)
    THEN [self |-> line, ret |-> Err("Full")]
    ELSE [self |-> [line EXCEPT
                      !.buf = [i \in 1..Cap(line) |->
                                 IF len(line) < i /\ i <= len(line) + Len(s)
                                 THEN s[i - len(line)]
                                 ELSE line.buf[i]],
                      !.fill = as_u8(line.fill + as_u8(Len(s)))],
          ret |-> Ok(0)]

\* extend without the test of the characters
extend_unchecked(line, s) ==
    IF len(line) + Len(s) > Cap(line)
    THEN [self |-> line, ret |-> Err("Full")]
    ELSE [self |-> [line EXCEPT
                      !.buf = [i \in 1..Cap(line) |->
                                 IF len(line) < i /\ i <= len(line) + Len(s)
                                 THEN s[i - len(line)]
                                 ELSE line.buf[i]],
                      !.fill = as_u8(line.fill + as_u8(Len(s)))],
          ret |-> Ok(0)]

\* s is the sequence of the bytes of the &str
extend(line, s) ==
    IF len(line) + Len(s) > Cap(line)
    THEN [self |-> line, ret |-> Err("Full")]
    ELSE IF ~(\A i \in 1..Len(s) : acceptable_ascii(s[i]))
    THEN [self |-> line, ret |-> Err("InvalidChar")]
    ELSE [self |-> [line EXCEPT
                      !.buf = [i \in 1..Cap(line) |->
                                 IF len(line) < i /\ i <= len(line) + Len(s)
                                 THEN s[i - len(line)]
                                 ELSE line.buf[i]],
                      !.fill = as_u8(line.fill + as_u8(Len(s)))],
          ret |-> Ok(0)]

\* overwrite that counts every write as a new character
overwrite_always_grows(line, pos, ovrw) ==
    IF pos > len(line) \/ pos >= Cap(line)
    THEN [self |-> line, ret |-> Err("Full")]
    ELSE IF ~ascii_good(ovrw).ok
    THEN [self |-> line, ret |-> ascii_good(ovrw)]
    ELSE [self |-> [line EXCEPT !.buf[pos + 1] = ovrw,
                                !.fill = as_u8(line.fill + 1)],
          ret |-> Ok(0)]

overwrite(line, pos, ovrw) ==
    IF pos > len(line) \/ pos >= Cap(line)
    THEN [self |-> line, ret |-> Err("Full")]
    ELSE IF ~ascii_good(ovrw).ok
    THEN [self |-> line, ret |-> ascii_good(ovrw)]
    ELSE [self |-> [line EXCEPT !.buf[pos + 1] = ovrw,
                                !.fill = IF pos = len(line)
                                         THEN as_u8(line.fill + 1)
                                         ELSE line.fill],
          ret |-> Ok(0)]

\* insert that answers Full for a position after the tip
insert_gap_as_full(line, pos, ins) ==
    IF ~not_full(line).ok
    THEN [self |-> line, ret |-> not_full(line)]
    ELSE IF pos >= Cap(line)
    THEN [self |-> line, ret |-> Err("Full")]
    ELSE IF ~acceptable_ascii(ins)
    THEN [self |-> line, ret |-> Err("InvalidChar")]
    ELSE IF len(line) = pos
    THEN [self |-> [line EXCEPT !.buf[pos + 1] = ins,
                                !.fill = as_u8(line.fill + 1)],
          ret |-> Ok(0)]
    ELSE IF len(line) > pos
    THEN [self |-> [line EXCEPT
                      !.buf = RotRightSlice([line.buf EXCEPT
                                                ![len(line) + 1] = ins],
                                            0, len(line) + 1),
                      !.fill = as_u8(line.fill + 1)],
          ret |-> Ok(0)]
    ELSE [self |-> line, ret |-> Err("Full")]

\* match self.len().cmp(&pos): Equal, Greater, Less
insert(line, pos, ins) ==
    IF ~not_full(line).ok
    THEN [self |-> line, ret |-> not_full(line)]
    ELSE IF pos >= Cap(line)
    THEN [self |-> line, ret |-> Err("Full")]
    ELSE IF ~acceptable_ascii(ins)
    THEN [self |-> line, ret |-> Err("InvalidChar")]
    ELSE IF len(line) = pos
    THEN [self |-> [line EXCEPT !.buf[pos + 1] = ins,
                                !.fill = as_u8(line.fill + 1)],
          ret |-> Ok(0)]
    ELSE IF len(line) > pos
    THEN [self |-> [line EXCEPT
                      !.buf = RotRightSlice([line.buf EXCEPT
                                                ![len(line) + 1] = ins],
                                            0, len(line) + 1),
                      !.fill = as_u8(line.fill + 1)],
          ret |-> Ok(0)]
    ELSE [self |-> line, ret |-> Err("WriteGap")]

----------------------------------------------------------------------------
(* RingLine, lib.rs.  self is [lines, brick]. *)

RingLine_INIT == [s \in 0..(L - 1) |-> Line_new]

RingLine_new == [lines |-> RingLine_INIT, brick |-> Bricks_new]

submit_local_editing(self) == [self EXCEPT !.brick = release_ue(self.brick)]

submit_remote_editing(self) == [self EXCEPT !.brick = release_ie(self.brick)]
\* get_local_first_writeable handing out the front line even when it is full
get_local_front_even_full(self) ==
    LET front == ue_front(self.brick)
        new == ~front.ok
        ins == insert_ue_front(self.brick)
    IN  IF ~new
        THEN [self |-> self, ret |-> Ok(front.val)]
        ELSE IF ~ins.ret.ok
        THEN [self |-> [self EXCEPT !.brick = ins.self], ret |-> Err("None")]
        ELSE LET wr == ins.ret.val
             IN  [self |-> [brick |-> ins.self,
                            lines |-> [self.lines EXCEPT
                                ![wr] = set_status(clear(@), "Local")]],
                  ret |-> Ok(wr)]

\* ret is Ok(slot) for Some(&mut lines[slot]) and Err("None") for None
get_local_first_writeable(self) ==
    LET front == ue_front(self.brick)
        new == IF front.ok THEN is_full(self.lines[front.val]) ELSE TRUE
        ins == insert_ue_front(self.brick)
    IN  IF ~new
        THEN [self |-> self, ret |-> Ok(front.val)]
        ELSE IF ~ins.ret.ok
        THEN [self |-> [self EXCEPT !.brick = ins.self], ret |-> Err("None")]
        ELSE LET wr == ins.ret.val
             IN  [self |-> [brick |-> ins.self,
                            lines |-> [self.lines EXCEPT
                                ![wr] = set_status(clear(@), "Local")]],
                  ret |-> Ok(wr)]\* get_remote_first_writeable tagging the new line, then clearing it
get_remote_clear_last(self) ==
    LET front == ie_front(self.brick)
        new == IF front.ok THEN is_full(self.lines[front.val]) ELSE TRUE
        ins == insert_ie_front(self.brick)
    IN  IF ~new
        THEN [self |-> self, ret |-> Ok(front.val)]
        ELSE IF ~ins.ret.ok
        THEN [self |-> [self EXCEPT !.brick = ins.self], ret |-> Err("None")]
        ELSE LET wr == ins.ret.val
             IN  [self |-> [brick |-> ins.self,
                            lines |-> [self.lines EXCEPT
                                ![wr] = clear(set_status(@, "Remote"))]],
                  ret |-> Ok(wr)]

\* get_remote_first_writeable tagging the new line without clearing it
get_remote_uncleared(self) ==
    LET front == ie_front(self.brick)
        new == IF front.ok THEN is_full(self.lines[front.val]) ELSE TRUE
        ins == insert_ie_front(self.brick)
    IN  IF ~new
        THEN [self |-> self, ret |-> Ok(front.val)]
        ELSE IF ~ins.ret.ok
        THEN [self |-> [self EXCEPT !.brick = ins.self], ret |-> Err("None")]
        ELSE LET wr == ins.ret.val
             IN  [self |-> [brick |-> ins.self,
                            lines |-> [self.lines EXCEPT
                                ![wr] = set_status(@, "Remote")]],
                  ret |-> Ok(wr)]

get_remote_first_writeable(self) ==
    LET front == ie_front(self.brick)
        new == IF front.ok THEN is_full(self.lines[front.val]) ELSE TRUE
        ins == insert_ie_front(self.brick)
    IN  IF ~new
        THEN [self |-> self, ret |-> Ok(front.val)]
        ELSE IF ~ins.ret.ok
        THEN [self |-> [self EXCEPT !.brick = ins.self], ret |-> Err("None")]
        ELSE LET wr == ins.ret.val
             IN  [self |-> [brick |-> ins.self,
                            lines |-> [self.lines EXCEPT
                                ![wr] = set_status(clear(@), "Remote")]],
                  ret |-> Ok(wr)]

\* what append_*_char does with the line get_*_first_writeable hands it
PushFirstWriteable(g, c) ==
    IF ~g.ret.ok
    THEN [self |-> g.self, ret |-> Err("Full")]
    ELSE LET p == push(g.self.lines[g.ret.val], c)
         IN  [self |-> [g.self EXCEPT !.lines[g.ret.val] = p.self],
              ret |-> p.ret]

append_local_char(self, c) ==
    PushFirstWriteable(get_local_first_writeable(self), c)

append_remote_char(self, c) ==
    PushFirstWriteable(get_remote_first_writeable(self), c)
\* pop_local_char taking idx_buf[0] for the local front without asking
\* whether the local zone holds a line
pop_local_char_any_front(self) ==
    LET slot == self.brick.idx_buf[1]
    IN  IF is_empty(self.lines[slot])
        THEN [self EXCEPT !.brick = pop_ue_front(self.brick)]
        ELSE [self EXCEPT !.lines[slot] = pop(@)]
\* pop_local_char that never takes the empty front line out of the zone
pop_local_char_keeps_line(self) ==
    LET it == iter_local_editable(self.brick)
    IN  IF it = <<>>
        THEN self
        ELSE IF is_empty(self.lines[it[1]])
        THEN self
        ELSE [self EXCEPT !.lines[it[1]] = pop(@)]

pop_local_char(self) ==
    LET it == iter_local_editable(self.brick)
    IN  IF it = <<>>
        THEN self
        ELSE IF is_empty(self.lines[it[1]])
        THEN [self EXCEPT !.brick = pop_ue_front(self.brick)]
        ELSE [self EXCEPT !.lines[it[1]] = pop(@)]

\* RingLine::pop_remote_char is called by tests/exemplar.rs; its body is not
\* among the sources, so it follows the description of pop_remote_char and of
\* pop_front(remote)
pop_remote_char(self) ==
    LET it == iter_remote_editable(self.brick)
    IN  IF it = <<>>
        THEN self
        ELSE IF is_empty(self.lines[it[1]])
        THEN [self EXCEPT !.brick = pop_remote_editable_front(self.brick)]
        ELSE [self EXCEPT !.lines[it[1]] = pop(@)]

----------------------------------------------------------------------------
(* The engine on its own: every Bricks operation of bricks.rs, in any order *)
\* the second engine of the comparison with its own payload store, and what
\* its last call returned
Twin_new == [brick |-> Bricks_new, lines |-> RingLine_INIT, ret |-> Ok(0)]

Init ==
    /\ brick = Bricks_new
    /\ lines = RingLine_INIT
    /\ call = [op |-> "new", arg |-> 0, ret |-> Ok(0)]
    /\ test_line = TestLine_new
    /\ prev = [brick |-> Bricks_new, lines |-> RingLine_INIT,
               line |-> TestLine_new]
    /\ ncalls = 0
    /\ log = <<>>
    /\ evicted = FALSE
    /\ twin = Twin_new

Remember ==
    prev' = [brick |-> brick, lines |-> lines, line |-> test_line]

BInsertLocal ==
    LET r == insert_local_editable_front(brick)
    IN  /\ brick' = r.self
        /\ call' = [op |-> "insert_local", arg |-> 0, ret |-> r.ret]
        /\ Remember
        /\ UNCHANGED <<lines, test_line, ncalls, log, evicted, twin>>

BInsertRemote ==
    LET r == insert_remote_editable_front(brick)
    IN  /\ brick' = r.self
        /\ call' = [op |-> "insert_remote", arg |-> 0, ret |-> r.ret]
        /\ Remember
        /\ UNCHANGED <<lines, test_line, ncalls, log, evicted, twin>>

BPopLocal ==
    /\ brick' = pop_local_editable_front(brick)
    /\ call' = [op |-> "pop_local", arg |-> 0, ret |-> Ok(0)]
    /\ Remember
    /\ UNCHANGED <<lines, test_line, ncalls, log, evicted, twin>>

BPopRemote ==
    /\ brick' = pop_remote_editable_front(brick)
    /\ call' = [op |-> "pop_remote", arg |-> 0, ret |-> Ok(0)]
    /\ Remember
    /\ UNCHANGED <<lines, test_line, ncalls, log, evicted, twin>>

BSubmitLocal ==
    /\ brick' = submit_local_editable(brick)
    /\ call' = [op |-> "submit_local", arg |-> 0, ret |-> Ok(0)]
    /\ Remember
    /\ UNCHANGED <<lines, test_line, ncalls, log, evicted, twin>>

BSubmitRemote ==
    /\ brick' = submit_remote_editable(brick)
    /\ call' = [op |-> "submit_remote", arg |-> 0, ret |-> Ok(0)]
    /\ Remember
    /\ UNCHANGED <<lines, test_line, ncalls, log, evicted, twin>>

NextBricks ==
    \/ BInsertLocal
    \/ BInsertRemote
    \/ BPopLocal
    \/ BPopRemote
    \/ BSubmitLocal
    \/ BSubmitRemote

SpecBricks == Init /\ [][NextBricks]_vars

----------------------------------------------------------------------------
(* The coordinator: every RingLine operation, in any order *)

Self == [lines |-> lines, brick |-> brick]

Becomes(self) ==
    /\ ncalls' = ncalls + 1
    /\ brick' = self.brick
    /\ lines' = self.lines
    /\ UNCHANGED <<test_line, twin>>

AppendLocal(c) ==
    LET r == append_local_char(Self, c)
    IN  /\ Becomes(r.self)
        /\ call' = [op |-> "append_local_char", arg |-> c, ret |-> r.ret]
        /\ Remember

AppendRemote(c) ==
    LET r == append_remote_char(Self, c)
    IN  /\ Becomes(r.self)
        /\ call' = [op |-> "append_remote_char", arg |-> c, ret |-> r.ret]
        /\ Remember

SubmitLocal ==
    /\ Becomes(submit_local_editing(Self))
    /\ call' = [op |-> "submit_local_editing", arg |-> 0, ret |-> Ok(0)]
    /\ Remember

SubmitRemote ==
    /\ Becomes(submit_remote_editing(Self))
    /\ call' = [op |-> "submit_remote_editing", arg |-> 0, ret |-> Ok(0)]
    /\ Remember

AppendLocalChar ==
    /\ ncalls < MaxCalls
    /\ \E c \in Bytes : AppendLocal(c)
    /\ UNCHANGED <<log, evicted>>

AppendRemoteChar ==
    /\ ncalls < MaxCalls
    /\ \E c \in Bytes : AppendRemote(c)
    /\ UNCHANGED <<log, evicted>>

PopLocalChar ==
    /\ ncalls < MaxCalls
    /\ Becomes(pop_local_char(Self))
    /\ call' = [op |-> "pop_local_char", arg |-> 0, ret |-> Ok(0)]
    /\ Remember
    /\ UNCHANGED <<log, evicted>>

PopRemoteChar ==
    /\ ncalls < MaxCalls
    /\ Becomes(pop_remote_char(Self))
    /\ call' = [op |-> "pop_remote_char", arg |-> 0, ret |-> Ok(0)]
    /\ Remember
    /\ UNCHANGED <<log, evicted>>

SubmitLocalEditing ==
    /\ ncalls < MaxCalls
    /\ SubmitLocal
    /\ UNCHANGED <<log, evicted>>

SubmitRemoteEditing ==
    /\ ncalls < MaxCalls
    /\ SubmitRemote
    /\ UNCHANGED <<log, evicted>>

Next ==
    \/ AppendLocalChar
    \/ AppendRemoteChar
    \/ PopLocalChar
    \/ PopRemoteChar
    \/ SubmitLocalEditing
    \/ SubmitRemoteEditing

Spec == Init /\ [][Next]_vars

----------------------------------------------------------------------------
(* Appends and submits only, with a record of what each submit handed over *)

Reverse(s) == [i \in 1..Len(s) |-> s[Len(s) + 1 - i]]

\* the texts of the lines at the slots zone, oldest first, each marked party
Submitted(zone, party) ==
    [i \in 1..Len(zone) |-> <<party, as_str(lines[Reverse(zone)[i]])>>]

\* the call recycles a history line: it changes the Bricks while no slot is
\* free and the history is not empty
Recycles ==
    /\ brick' # brick
    /\ brick.history_end = L
    /\ iter_history(brick) # <<>>

LoggedAppendLocal ==
    /\ ncalls < MaxLoggedCalls
    /\ \E c \in TypedBytes : AppendLocal(c)
    /\ evicted' = (evicted \/ Recycles)
    /\ UNCHANGED log

LoggedAppendRemote ==
    /\ ncalls < MaxLoggedCalls
    /\ \E c \in TypedBytes : AppendRemote(c)
    /\ evicted' = (evicted \/ Recycles)
    /\ UNCHANGED log

LoggedSubmitLocal ==
    /\ ncalls < MaxLoggedCalls
    /\ SubmitLocal
    /\ log' = log \o Submitted(iter_local_editable(brick), "Local")
    /\ UNCHANGED evicted

LoggedSubmitRemote ==
    /\ ncalls < MaxLoggedCalls
    /\ SubmitRemote
    /\ log' = log \o Submitted(iter_remote_editable(brick), "Remote")
    /\ UNCHANGED evicted

NextLogged ==
    \/ LoggedAppendLocal
    \/ LoggedAppendRemote
    \/ LoggedSubmitLocal
    \/ LoggedSubmitRemote

SpecLogged == Init /\ [][NextLogged]_vars

----------------------------------------------------------------------------
(* One Line on its own: every Line operation of lines.rs, in any order *)

\* positions handed to insert and overwrite: inside, at and past the capacity
Positions == 0..(LineC + 1)

\* strings handed to extend: from "" to as many bytes as the line can hold
Strings == UNION {[1..n -> ExtendBytes] : n \in 0..LineC}

Sources == {"Local", "Remote"}

LineUnchanged == UNCHANGED <<brick, lines, ncalls, log, evicted, twin>>

Push ==
    \E b \in LineBytes :
        LET r == push(test_line, b)
        IN  /\ test_line' = r.self
            /\ call' = [op |-> "push", arg |-> b, ret |-> r.ret]
            /\ Remember
            /\ LineUnchanged

Insert ==
    \E pos \in Positions, b \in LineBytes :
        LET r == insert(test_line, pos, b)
        IN  /\ test_line' = r.self
            /\ call' = [op |-> "insert", arg |-> <<pos, b>>, ret |-> r.ret]
            /\ Remember
            /\ LineUnchanged

Overwrite ==
    \E pos \in Positions, b \in LineBytes :
        LET r == overwrite(test_line, pos, b)
        IN  /\ test_line' = r.self
            /\ call' = [op |-> "overwrite", arg |-> <<pos, b>>, ret |-> r.ret]
            /\ Remember
            /\ LineUnchanged

Extend ==
    \E s \in Strings :
        LET r == extend(test_line, s)
        IN  /\ test_line' = r.self
            /\ call' = [op |-> "extend", arg |-> s, ret |-> r.ret]
            /\ Remember
            /\ LineUnchanged

Pop ==
    /\ test_line' = pop(test_line)
    /\ call' = [op |-> "pop", arg |-> 0, ret |-> Ok(0)]
    /\ Remember
    /\ LineUnchanged

Clear ==
    /\ test_line' = clear(test_line)
    /\ call' = [op |-> "clear", arg |-> 0, ret |-> Ok(0)]
    /\ Remember
    /\ LineUnchanged

SetStatus ==
    \E source \in Sources :
        /\ test_line' = set_status(test_line, source)
        /\ call' = [op |-> "set_status", arg |-> source, ret |-> Ok(0)]
        /\ Remember
        /\ LineUnchanged

NextLine ==
    \/ Push
    \/ Insert
    \/ Overwrite
    \/ Extend
    \/ Pop
    \/ Clear
    \/ SetStatus

SpecLine == Init /\ [][NextLine]_vars

----------------------------------------------------------------------------
(* A Line whose capacity is past the range of its u8 fill, pushed to *)

InitBigLine ==
    /\ brick = Bricks_new
    /\ lines = RingLine_INIT
    /\ test_line = BigLine_new
    /\ call = [op |-> "new", arg |-> 0, ret |-> Ok(0)]
    /\ prev = [brick |-> Bricks_new, lines |-> RingLine_INIT,
               line |-> BigLine_new]
    /\ ncalls = 0
    /\ log = <<>>
    /\ evicted = FALSE
    /\ twin = Twin_new

\* push(b'a') where `self.fill += 1` stays in range, or wraps in a build
\* without overflow checks
BigPush ==
    LET r == push(test_line, 97)
    IN  /\ call.ret.err # "panic"
        /\ test_line' = r.self
        /\ call' = [op |-> "push", arg |-> 97, ret |-> r.ret]
        /\ Remember
        /\ LineUnchanged

\* push(b'a') where `self.fill += 1` overflows in a build with overflow
\* checks: the byte is written, then the program panics
BigPushPanics ==
    /\ call.ret.err # "panic"
    /\ not_full(test_line).ok
    /\ test_line.fill + 1 > 255
    /\ test_line' = [test_line EXCEPT !.buf[len(test_line) + 1] = 97]
    /\ call' = [op |-> "push", arg |-> 97, ret |-> Err("panic")]
    /\ Remember
    /\ LineUnchanged

NextBigLine ==
    \/ BigPush
    \/ BigPushPanics

SpecBigLine == InitBigLine /\ [][NextBigLine]_vars

----------------------------------------------------------------------------
(* One write of any byte to a line with room: the character test of push,
   insert, overwrite and extend. *)

\* every value of a u8
AllBytes == 0..255

\* the contents of a &str of at most two bytes: one ASCII character, two
\* ASCII characters, or one character of two bytes (UTF-8: a lead byte
\* 0xC2..0xDF and a continuation byte 0x80..0xBF)
ShortStrs ==
    {<<b>> : b \in 0..127}
        \cup {<<97, b>> : b \in 0..127}
        \cup {<<lead, cont>> : lead \in 194..223, cont \in 128..191}

\* Line::new(), and the same line after push(b'a')
InitBytes ==
    /\ brick = Bricks_new
    /\ lines = RingLine_INIT
    /\ test_line \in {TestLine_new, push(TestLine_new, 97).self}
    /\ call = [op |-> "new", arg |-> 0, ret |-> Ok(0)]
    /\ prev = [brick |-> Bricks_new, lines |-> RingLine_INIT,
               line |-> test_line]
    /\ ncalls = 0
    /\ log = <<>>
    /\ evicted = FALSE
    /\ twin = Twin_new

BytePush ==
    \E b \in AllBytes :
        LET r == push(test_line, b)
        IN  /\ call.op = "new"
            /\ test_line' = r.self
            /\ call' = [op |-> "push", arg |-> b, ret |-> r.ret]
            /\ Remember
            /\ LineUnchanged

ByteInsert ==
    \E pos \in 0..len(test_line), b \in AllBytes :
        LET r == insert(test_line, pos, b)
        IN  /\ call.op = "new"
            /\ test_line' = r.self
            /\ call' = [op |-> "insert", arg |-> <<pos, b>>, ret |-> r.ret]
            /\ Remember
            /\ LineUnchanged

ByteOverwrite ==
    \E pos \in 0..len(test_line), b \in AllBytes :
        LET r == overwrite(test_line, pos, b)
        IN  /\ call.op = "new"
            /\ test_line' = r.self
            /\ call' = [op |-> "overwrite", arg |-> <<pos, b>>, ret |-> r.ret]
            /\ Remember
            /\ LineUnchanged

ByteExtend ==
    \E s \in ShortStrs :
        LET r == extend(test_line, s)
        IN  /\ call.op = "new"
            /\ test_line' = r.self
            /\ call' = [op |-> "extend", arg |-> s, ret |-> r.ret]
            /\ Remember
            /\ LineUnchanged

NextBytes ==
    \/ BytePush
    \/ ByteInsert
    \/ ByteOverwrite
    \/ ByteExtend

SpecBytes == InitBytes /\ [][NextBytes]_vars

----------------------------------------------------------------------------
(* Line::<C>::cap_u8() for the capacities a program can name *)

MaxCap == 300

\* `if C > ((u8::MAX - 1) as usize) { panic!("Too big!") } else { C as u8 }`
cap_u8(c) == IF c > 255 - 1 THEN Err("panic") ELSE Ok(as_u8(c))

\* a program evaluates Line::<c>::cap_u8()
CapU8 ==
    \E c \in 0..MaxCap :
        /\ call' = [op |-> "cap_u8", arg |-> c, ret |-> cap_u8(c)]
        /\ UNCHANGED <<brick, lines, test_line, prev, ncalls, log,
                       evicted, twin>>

NextCap == CapU8

SpecCap == Init /\ [][NextCap]_vars

----------------------------------------------------------------------------
(* The two copies of the engine side by side: bricks.rs's in brick with the
   payloads in lines, lib.rs's in twin.brick with the payloads in
   twin.lines.  Every call is made on both, and the caller writes the same
   payload into the slot each insert returns.  prev is not kept here. *)

MaxTwinCalls == 10

\* the payload the caller writes after its n-th call: a line holding one
\* byte, another one for every call
Payload(n) == push(Line_new, 97 + n).self

\* the store after the caller used the Result of an insert
Stored(store, ret, n) ==
    IF ret.ok THEN [store EXCEPT ![ret.val] = Payload(n)] ELSE store

TwinUnchanged == UNCHANGED <<test_line, prev, log, evicted>>

TwinInsertLocal ==
    LET a == insert_local_editable_front(brick)
        b == insert_ue_front(twin.brick)
    IN  /\ ncalls < MaxTwinCalls
        /\ ncalls' = ncalls + 1
        /\ brick' = a.self
        /\ lines' = Stored(lines, a.ret, ncalls)
        /\ twin' = [brick |-> b.self,
                    lines |-> Stored(twin.lines, b.ret, ncalls),
                    ret |-> b.ret]
        /\ call' = [op |-> "insert_local", arg |-> ncalls, ret |-> a.ret]
        /\ TwinUnchanged

TwinInsertRemote ==
    LET a == insert_remote_editable_front(brick)
        b == insert_ie_front(twin.brick)
    IN  /\ ncalls < MaxTwinCalls
        /\ ncalls' = ncalls + 1
        /\ brick' = a.self
        /\ lines' = Stored(lines, a.ret, ncalls)
        /\ twin' = [brick |-> b.self,
                    lines |-> Stored(twin.lines, b.ret, ncalls),
                    ret |-> b.ret]
        /\ call' = [op |-> "insert_remote", arg |-> ncalls, ret |-> a.ret]
        /\ TwinUnchanged

TwinPopLocal ==
    /\ ncalls < MaxTwinCalls
    /\ ncalls' = ncalls + 1
    /\ brick' = pop_local_editable_front(brick)
    /\ twin' = [twin EXCEPT !.brick = pop_ue_front(twin.brick), !.ret = Ok(0)]
    /\ call' = [op |-> "pop_local", arg |-> 0, ret |-> Ok(0)]
    /\ UNCHANGED lines
    /\ TwinUnchanged

TwinSubmitLocal ==
    /\ ncalls < MaxTwinCalls
    /\ ncalls' = ncalls + 1
    /\ brick' = submit_local_editable(brick)
    /\ twin' = [twin EXCEPT !.brick = release_ue(twin.brick), !.ret = Ok(0)]
    /\ call' = [op |-> "submit_local", arg |-> 0, ret |-> Ok(0)]
    /\ UNCHANGED lines
    /\ TwinUnchanged

TwinSubmitRemote ==
    /\ ncalls < MaxTwinCalls
    /\ ncalls' = ncalls + 1
    /\ brick' = submit_remote_editable(brick)
    /\ twin' = [twin EXCEPT !.brick = release_ie(twin.brick), !.ret = Ok(0)]
    /\ call' = [op |-> "submit_remote", arg |-> 0, ret |-> Ok(0)]
    /\ UNCHANGED lines
    /\ TwinUnchanged

NextTwin ==
    \/ TwinInsertLocal
    \/ TwinInsertRemote
    \/ TwinPopLocal
    \/ TwinSubmitLocal
    \/ TwinSubmitRemote

SpecTwin == Init /\ [][NextTwin]_vars

----------------------------------------------------------------------------
(* zone views used by the properties *)

Range(s) == {s[i] : i \in 1..Len(s)}

IsPermutation(s) == Len(s) = L /\ Range(s) = 0..(L - 1)

\* C1: after any sequence of engine operations, successful or failing,
\* 0 <= local_end <= remote_end <= history_end <= L and idx is a permutation
\* of {0..L-1}.
C1_ZoneInvariant ==
    /\ 0 <= brick.local_editable_end
    /\ brick.local_editable_end <= brick.remote_editable_end
    /\ brick.remote_editable_end <= brick.history_end
    /\ brick.history_end <= L
    /\ IsPermutation(brick.idx_buf)

InsertCalls == {"insert_local", "insert_remote"}

\* an insert when every slot was already in a zone (history_end = L)
C1_Witness ==
    /\ call.op = "insert_local"
    /\ call.ret.ok
    /\ prev.brick.history_end = L
    /\ prev.brick.remote_editable_end < L
    /\ prev.brick.local_editable_end > 0

\* C2: submit_local leaves the local zone empty, the remote zone exactly as it
\* was, the history equal to the old local zone followed by the old history,
\* and history_end and the free zone unchanged.
C2_SubmitLocal ==
    call.op = "submit_local" =>
        /\ iter_local_editable(brick) = <<>>
        /\ iter_remote_editable(brick) = iter_remote_editable(prev.brick)
        /\ iter_history(brick) =
               iter_local_editable(prev.brick) \o iter_history(prev.brick)
        /\ brick.history_end = prev.brick.history_end
        /\ FreeZone(brick) = FreeZone(prev.brick)

\* submit_local with two local lines, a remote line and a history line
C2_Witness ==
    /\ call.op = "submit_local"
    /\ Len(iter_local_editable(prev.brick)) >= 2
    /\ Len(iter_remote_editable(prev.brick)) >= 1
    /\ Len(iter_history(prev.brick)) >= 1

\* C3: submit_remote changes only remote_end, which becomes local_end; the
\* local zone is unchanged and the history is the old remote zone followed by
\* the old history.
C3_SubmitRemote ==
    call.op = "submit_remote" =>
        /\ brick.idx_buf = prev.brick.idx_buf
        /\ brick.local_editable_end = prev.brick.local_editable_end
        /\ brick.history_end = prev.brick.history_end
        /\ brick.remote_editable_end = prev.brick.local_editable_end
        /\ iter_local_editable(brick) = iter_local_editable(prev.brick)
        /\ iter_remote_editable(brick) = <<>>
        /\ iter_history(brick) =
               iter_remote_editable(prev.brick) \o iter_history(prev.brick)

\* submit_remote with a local line, two remote lines and a history line
C3_Witness ==
    /\ call.op = "submit_remote"
    /\ Len(iter_local_editable(prev.brick)) >= 1
    /\ Len(iter_remote_editable(prev.brick)) >= 2
    /\ Len(iter_history(prev.brick)) >= 1

\* s without its last element
Front(s) == SubSeq(s, 1, Len(s) - 1)

C6_TakesHistoryOrFree ==
    (call.op \in InsertCalls /\ call.ret.ok) =>
        call.ret.val \in Range(iter_history(prev.brick))
                            \cup Range(FreeZone(prev.brick))

\* C7: insert_front(local) fails exactly when local_end = L, insert_front(remote)
\* exactly when remote_end = L, and a failing insert changes nothing.
C7_InsertFails ==
    /\ call.op = "insert_local" =>
           (call.ret.ok <=> prev.brick.local_editable_end < L)
    /\ call.op = "insert_remote" =>
           (call.ret.ok <=> prev.brick.remote_editable_end < L)
    /\ (call.op \in InsertCalls /\ ~call.ret.ok) => brick = prev.brick

\* a local insert that succeeds although local and remote fill the array
C7_Witness ==
    /\ call.op = "insert_local"
    /\ call.ret.ok
    /\ prev.brick.local_editable_end < L
    /\ prev.brick.remote_editable_end = L

\* C8: while a free slot exists, a successful insert_front returns the first
\* free slot idx[history_end]; the history and the other editing zone keep
\* their entries and order, and the target zone gains that slot at its front.
C8_TakesFirstFree ==
    (/\ call.op \in InsertCalls
     /\ call.ret.ok
     /\ prev.brick.history_end < L) =>
        /\ call.ret.val = prev.brick.idx_buf[prev.brick.history_end + 1]
        /\ iter_history(brick) = iter_history(prev.brick)
        /\ FreeZone(brick) = Tail(FreeZone(prev.brick))
        /\ call.op = "insert_local" =>
            /\ iter_local_editable(brick) =
                   <<call.ret.val>> \o iter_local_editable(prev.brick)
            /\ iter_remote_editable(brick) = iter_remote_editable(prev.brick)
        /\ call.op = "insert_remote" =>
            /\ iter_remote_editable(brick) =
                   <<call.ret.val>> \o iter_remote_editable(prev.brick)
            /\ iter_local_editable(brick) = iter_local_editable(prev.brick)

\* a remote insert with a local, a remote and a history line and one free slot
C8_Witness ==
    /\ call.op = "insert_remote"
    /\ call.ret.ok
    /\ prev.brick.history_end < L
    /\ Len(iter_local_editable(prev.brick)) >= 1
    /\ Len(iter_remote_editable(prev.brick)) >= 1
    /\ Len(iter_history(prev.brick)) >= 1

AppendCalls == {"append_local_char", "append_remote_char"}

\* the history as the renderer reads it, oldest first: <<tag, text>>
HistoryOldestFirst ==
    LET h == Reverse(iter_history(brick))
    IN  [i \in 1..Len(h) |-> <<lines[h[i]].status, as_str(lines[h[i]])>>]

\* C4: while no history line has been recycled, the history read oldest to
\* newest is the list of submitted lines in the order of the submit calls,
\* each with the text it had when submitted and the tag of the submitting party.
C4_HistoryIsSubmissionLog ==
    ~evicted => HistoryOldestFirst = log

\* local and remote submissions interleaved, one of them of two lines
C4_Witness ==
    /\ ~evicted
    /\ call.op = "submit_remote_editing"
    /\ Len(log) >= 4
    /\ \E i \in 1..(Len(log) - 2) :
          /\ log[i][1] = "Local" /\ Len(log[i][2]) = C
          /\ log[i + 1][1] = "Local" /\ log[i + 1][2] # <<>>
          /\ log[i + 1][2] # log[i][2]
    /\ log[Len(log)][1] = "Remote"
    /\ log[Len(log)][2] # <<>>

\* what a caller can read of a coordinator: the Bricks and, for every slot of
\* the local, remote and history zones, the fill, text and tag of its line
Visible(self) ==
    [brick |-> self.brick,
     zones |-> [i \in 1..self.brick.history_end |->
                   LET line == self.lines[self.brick.idx_buf[i]]
                   IN  <<line.fill, as_str(line), line.status>>]]

\* C9: an append_*_char that returns an error leaves idx, the boundaries and
\* the text, fill and tag of every line of the three zones as they were.
C9_FailedAppendChangesNothing ==
    (call.op \in AppendCalls /\ ~call.ret.ok) =>
        Visible(Self) = Visible(prev)

\* C10: an append of an acceptable byte returns Full only when every slot was
\* in the local or remote zone; while a history or free slot exists it succeeds.
C10_FullOnlyWhenAllEditing ==
    (call.op \in AppendCalls /\ acceptable_ascii(call.arg)) =>
        /\ call.ret.err = "Full" => prev.brick.remote_editable_end = L
        /\ prev.brick.remote_editable_end < L => call.ret.ok

\* a remote append refused with Full while both zones hold lines
C10_Witness ==
    /\ call.op = "append_remote_char"
    /\ acceptable_ascii(call.arg)
    /\ call.ret.err = "Full"
    /\ prev.brick.local_editable_end >= 1
    /\ prev.brick.remote_editable_end - prev.brick.local_editable_end >= 1

----------------------------------------------------------------------------
(* C11 .. C20 *)

\* the engine after a successful insert_local_editable_front and the
\* pop_local_editable_front that follows it
InsertedThenPopped(b) ==
    pop_local_editable_front(insert_local_editable_front(b).self)

\* C11 as stated: from every reachable engine state in which the local insert
\* succeeds, the insert followed by the local pop restores idx and the three
\* boundaries exactly.
C11_RoundTripRestores ==
    insert_local_editable_front(brick).ret.ok =>
        InsertedThenPopped(brick) = brick

\* C11 as amended: with a free slot (history_end < L) the insert followed by
\* the pop restores idx and the three boundaries exactly; with no free slot it
\* restores idx and local_end, leaves history_end at L - 1, and leaves
\* remote_end at L - 1 when it was L and as it was otherwise.
C11_RoundTripWithFreeSlot ==
    insert_local_editable_front(brick).ret.ok =>
        LET after == InsertedThenPopped(brick)
        IN  /\ brick.history_end < L => after = brick
            /\ brick.history_end = L =>
                  /\ after.idx_buf = brick.idx_buf
                  /\ after.local_editable_end = brick.local_editable_end
                  /\ after.history_end = L - 1
                  /\ after.remote_editable_end =
                        IF brick.remote_editable_end = L
                        THEN L - 1
                        ELSE brick.remote_editable_end

\* a local pop that has just undone a local insert made with a free slot
\* while all three zones held lines
C11_Witness ==
    /\ call.op = "pop_local"
    /\ insert_local_editable_front(brick).ret.ok
    /\ prev.brick = insert_local_editable_front(brick).self
    /\ brick.history_end < L
    /\ Len(iter_local_editable(brick)) >= 1
    /\ Len(iter_remote_editable(brick)) >= 1
    /\ Len(iter_history(brick)) >= 1

\* the engine the claim describes after i local inserts into a new engine:
\* slots i-1 .. 0 in the local zone, slots i .. L-1 free, every boundary at i
AfterLocalInserts(i) ==
    [idx_buf |-> [p \in 1..L |-> IF p <= i THEN i - p ELSE p - 1],
     local_editable_end |-> i,
     remote_editable_end |-> i,
     history_end |-> i]

\* C12: a new engine is the engine after 0 local inserts; a local insert made
\* after i < L consecutive local inserts returns slot i, raises local_end by
\* one and gives the engine after i + 1; made after L of them it fails and
\* leaves idx = [L-1, .., 0] with all three boundaries at L.
C12_ConsecutiveLocalInserts ==
    /\ call.op = "new" => brick = AfterLocalInserts(0)
    /\ \A i \in 0..L :
          (call.op = "insert_local" /\ prev.brick = AfterLocalInserts(i)) =>
              IF i < L
              THEN /\ call.ret = Ok(i)
                   /\ brick.local_editable_end =
                         prev.brick.local_editable_end + 1
                   /\ brick = AfterLocalInserts(i + 1)
              ELSE /\ ~call.ret.ok
                   /\ brick = AfterLocalInserts(L)
                   /\ brick.idx_buf = [p \in 1..L |-> L - p]

\* the (L+1)-th consecutive local insert, refused
C12_Witness ==
    /\ call.op = "insert_local"
    /\ ~call.ret.ok
    /\ prev.brick = AfterLocalInserts(L)
    /\ brick.idx_buf = [p \in 1..L |-> L - p]
    /\ brick.history_end = L

\* what the three zone iterators yield over the items of TestBuf
YieldLocal(b) == collect(LineIter(iter_local_editable(b), TestBuf))

YieldRemote(b) == collect(LineIter(iter_remote_editable(b), TestBuf))

YieldHistory(b) == collect(LineIter(iter_history(b), TestBuf))

\* a is yielded before b
YieldedBefore(yield, a, b) ==
    \E i, j \in 1..Len(yield) : i < j /\ yield[i] = a /\ yield[j] = b

\* items that two calls in a row both yield come in the same order
SameOrder(before, after) ==
    \A a, b \in Range(before) \cap Range(after) :
        YieldedBefore(before, a, b) <=> YieldedBefore(after, a, b)

\* C13: each zone iterator yields the items of the slots idx[start..end) of
\* its zone in array order; the first item yielded is the item of front(zone);
\* an insert puts the new entry first in its zone and no operation reorders
\* the entries that stay in an editing zone, so the later-inserted of two
\* entries is yielded earlier.
C13_IteratorsNewestFirst ==
    LET le == brick.local_editable_end
        re == brick.remote_editable_end
        he == brick.history_end
    IN  /\ YieldLocal(brick) = [i \in 1..le |-> TestBuf[brick.idx_buf[i]]]
        /\ YieldRemote(brick) =
              [i \in 1..(re - le) |-> TestBuf[brick.idx_buf[le + i]]]
        /\ YieldHistory(brick) =
              [i \in 1..(he - re) |-> TestBuf[brick.idx_buf[re + i]]]
        /\ IF YieldLocal(brick) = <<>>
           THEN ~local_editable_front(brick).ok
           ELSE /\ local_editable_front(brick).ok
                /\ TestBuf[local_editable_front(brick).val] =
                      Head(YieldLocal(brick))
        /\ IF YieldRemote(brick) = <<>>
           THEN ~remote_editable_front(brick).ok
           ELSE /\ remote_editable_front(brick).ok
                /\ TestBuf[remote_editable_front(brick).val] =
                      Head(YieldRemote(brick))
        /\ (call.op = "insert_local" /\ call.ret.ok) =>
              YieldLocal(brick) =
                 <<TestBuf[call.ret.val]>> \o YieldLocal(prev.brick)
        /\ (call.op = "insert_remote" /\ call.ret.ok) =>
              YieldRemote(brick) =
                 <<TestBuf[call.ret.val]>> \o YieldRemote(prev.brick)
        /\ SameOrder(YieldLocal(prev.brick), YieldLocal(brick))
        /\ SameOrder(YieldRemote(prev.brick), YieldRemote(brick))

\* a third entry has just been inserted in front of two older local entries
\* while the remote zone and the history hold entries too
C13_Witness ==
    /\ call.op = "insert_local"
    /\ call.ret.ok
    /\ Len(YieldLocal(brick)) >= 2
    /\ Len(YieldRemote(brick)) >= 1
    /\ Len(YieldHistory(brick)) >= 1
    /\ Head(YieldLocal(brick)) = TestBuf[call.ret.val]

\* the slot offsets the mutable and shared iterators of the editing zones and
\* the history iterator hand out, zone by zone
SlotsYielded(b) ==
    <<collect_mut(LineIter(iter_local_editable(b), TestBuf)),
      collect_mut(LineIter(iter_remote_editable(b), TestBuf)),
      collect_mut(LineIter(iter_history(b), TestBuf))>>

\* C16: in every reachable engine state the slots a zone iterator yields are
\* pairwise distinct and below L, and no slot is yielded for two zones.
C16_YieldedSlotsDistinct ==
    LET y == SlotsYielded(brick)
    IN  /\ \A z \in 1..3 :
              /\ \A i \in 1..Len(y[z]) : y[z][i] \in 0..(L - 1)
              /\ \A i, j \in 1..Len(y[z]) : i # j => y[z][i] # y[z][j]
        /\ \A z1, z2 \in 1..3 :
              z1 # z2 => Range(y[z1]) \cap Range(y[z2]) = {}
        /\ \A z \in 1..3 :
              \A s \in Range(y[z]) :
                 Cardinality({i \in 1..L : brick.idx_buf[i] = s}) = 1

\* two local-editing slots, a remote-editing slot and a history slot are
\* yielded, after inserts that recycled history
C16_Witness ==
    /\ Len(SlotsYielded(brick)[1]) >= 2
    /\ Len(SlotsYielded(brick)[2]) >= 1
    /\ Len(SlotsYielded(brick)[3]) >= 1
    /\ brick.history_end = L
    /\ call.op \in InsertCalls
    /\ call.ret.ok
    /\ prev.brick.history_end = L

\* the lines of a run of slots as a caller reads them: slot, text and tag
LinesOf(self, slots) ==
    [i \in 1..Len(slots) |->
        <<slots[i], as_str(self.lines[slots[i]]), self.lines[slots[i]].status>>]

LocalLines(self) == LinesOf(self, iter_local_editable(self.brick))

RemoteLines(self) == LinesOf(self, iter_remote_editable(self.brick))

HistoryLines(self) == LinesOf(self, iter_history(self.brick))

\* what a pop_*_char does to the lines of the zone it edits
PopsOneChar(before, after) ==
    IF before = <<>>
    THEN after = <<>>
    ELSE IF before[1][2] # <<>>
    THEN /\ Len(after) = Len(before)
         /\ after[1] = <<before[1][1], Front(before[1][2]), before[1][3]>>
         /\ Tail(after) = Tail(before)
    ELSE after = Tail(before)

\* C14: pop_local_char and pop_remote_char remove the last byte of a non-empty
\* front line of their zone and keep the line, even when it becomes empty;
\* remove an empty front line, making the next-older line the front; do
\* nothing on an empty zone; and leave the lines of the other editing zone and
\* of the history, their order, text and tags, as they were.
C14_PopChar ==
    /\ call.op = "pop_local_char" =>
          /\ PopsOneChar(LocalLines(prev), LocalLines(Self))
          /\ RemoteLines(Self) = RemoteLines(prev)
          /\ HistoryLines(Self) = HistoryLines(prev)
          /\ LocalLines(prev) = <<>> =>
                brick = prev.brick /\ lines = prev.lines
    /\ call.op = "pop_remote_char" =>
          /\ PopsOneChar(RemoteLines(prev), RemoteLines(Self))
          /\ LocalLines(Self) = LocalLines(prev)
          /\ HistoryLines(Self) = HistoryLines(prev)
          /\ RemoteLines(prev) = <<>> =>
                brick = prev.brick /\ lines = prev.lines

\* pop_local_char has just removed an empty front line, leaving an older
\* local line in front, while the remote zone and the history hold lines
C14_Witness ==
    /\ call.op = "pop_local_char"
    /\ Len(LocalLines(prev)) >= 2
    /\ LocalLines(prev)[1][2] = <<>>
    /\ LocalLines(Self) = Tail(LocalLines(prev))
    /\ LocalLines(Self)[1][2] # <<>>
    /\ RemoteLines(Self) # <<>>
    /\ HistoryLines(Self) # <<>>

\* only local lines exist, all tagged Local, every one but the front full and
\* the front not empty
LocalRun(self) ==
    /\ self.brick.remote_editable_end = self.brick.local_editable_end
    /\ self.brick.history_end = self.brick.local_editable_end
    /\ \A i \in 1..Len(LocalLines(self)) :
          /\ LocalLines(self)[i][3] = "Local"
          /\ i > 1 => Len(LocalLines(self)[i][2]) = C
          /\ i = 1 => Len(LocalLines(self)[i][2]) >= 1

RECURSIVE Concat(_)
\* the texts of a run of lines joined in the order given
Concat(ls) == IF ls = <<>> THEN <<>> ELSE ls[1][2] \o Concat(Tail(ls))

\* the local text, oldest line first
LocalText(self) == Concat(Reverse(LocalLines(self)))

\* C15: a new buffer holds no text; an append_local_char of an acceptable byte
\* made when only n < L*C appended bytes exist, in local lines that are full
\* but for the front, succeeds and leaves n + 1 bytes in ceil((n+1)/C) local
\* lines tagged Local, all full but the front, whose text read oldest to
\* newest is the old text followed by the new byte.
C15_LocalAppendsFillLines ==
    /\ call.op = "new" => LocalRun(Self) /\ LocalText(Self) = <<>>
    /\ (/\ call.op = "append_local_char"
        /\ acceptable_ascii(call.arg)
        /\ LocalRun(prev)
        /\ Len(LocalText(prev)) < L * C) =>
          LET n == Len(LocalText(prev)) + 1
          IN  /\ call.ret.ok
              /\ LocalRun(Self)
              /\ LocalText(Self) = LocalText(prev) \o <<call.arg>>
              /\ Len(LocalLines(Self)) = (n + C - 1) \div C
              /\ Len(LocalLines(Self)[1][2]) = n - C * ((n + C - 1) \div C - 1)

\* the L*C-th append has filled the last of L local lines, with both letters
\* typed
C15_Witness ==
    /\ call.op = "append_local_char"
    /\ call.ret.ok
    /\ LocalRun(prev)
    /\ LocalRun(Self)
    /\ Len(LocalText(Self)) = L * C
    /\ Len(LocalLines(Self)) = L
    /\ {97, 98} \subseteq Range(LocalText(Self))
    /\ LocalText(Self)[1] # LocalText(Self)[2]

\* C17: after any sequence of push, insert, overwrite, extend, pop and clear
\* on a Line, fill is at most the capacity and every byte of buf[0..fill) is
\* acceptable; the 8-bit fill counter does not wrap: a successful push or
\* insert raises it by exactly one and a successful extend by the length of
\* the string.
C17_LineInvariant ==
    /\ test_line.fill \in 0..Cap(test_line)
    /\ Cap(test_line) <= 255
    /\ \A i \in 1..test_line.fill : acceptable_ascii(test_line.buf[i])
    /\ (call.op \in {"push", "insert"} /\ call.ret.ok) =>
          test_line.fill = prev.line.fill + 1
    /\ (call.op = "extend" /\ call.ret.ok) =>
          test_line.fill = prev.line.fill + Len(call.arg)

\* an insert before the tip has just filled the line
C17_Witness ==
    /\ call.op = "insert"
    /\ call.ret.ok
    /\ call.arg[1] < prev.line.fill
    /\ test_line.fill = Cap(test_line)
    /\ \A i \in 1..test_line.fill : acceptable_ascii(test_line.buf[i])

\* C18: on a non-full line with content s, insert(pos, b) of an acceptable
\* byte at a position before the tip succeeds, raises fill by one and leaves
\* the content s[0..pos], then b, then s[pos..fill].
C18_InsertAtPosition ==
    LET pos == call.arg[1]
        b == call.arg[2]
        s == as_str(prev.line)
    IN  (/\ call.op = "insert"
         /\ ~is_full(prev.line)
         /\ acceptable_ascii(b)
         /\ pos < len(prev.line)) =>
            /\ call.ret.ok
            /\ test_line.fill = prev.line.fill + 1
            /\ as_str(test_line) =
                  SubSeq(s, 1, pos) \o <<b>> \o SubSeq(s, pos + 1, Len(s))

\* C19 as stated: insert on a full line fails with Full for every position
\* and byte; on a non-full line it fails with WriteGap whenever
\* fill < pos < C; a failing insert leaves fill, content and tag unchanged.
C19_InsertFailures ==
    LET pos == call.arg[1]
    IN  call.op = "insert" =>
           /\ is_full(prev.line) => call.ret = Err("Full")
           /\ (/\ ~is_full(prev.line)
               /\ len(prev.line) < pos
               /\ pos < Cap(prev.line)) => call.ret = Err("WriteGap")
           /\ ~call.ret.ok =>
                 /\ test_line.fill = prev.line.fill
                 /\ as_str(test_line) = as_str(prev.line)
                 /\ test_line.status = prev.line.status

\* C19 as amended: insert on a full line fails with Full for every position
\* and byte; on a non-full line with fill < pos < C it fails with WriteGap
\* when the byte is acceptable and with InvalidChar when it is not; a failing
\* insert leaves fill, content and tag unchanged.
C19_InsertFailuresByByte ==
    LET pos == call.arg[1]
        b == call.arg[2]
    IN  call.op = "insert" =>
           /\ is_full(prev.line) => call.ret = Err("Full")
           /\ (/\ ~is_full(prev.line)
               /\ len(prev.line) < pos
               /\ pos < Cap(prev.line)) =>
                 call.ret = IF acceptable_ascii(b)
                            THEN Err("WriteGap")
                            ELSE Err("InvalidChar")
           /\ ~call.ret.ok =>
                 /\ test_line.fill = prev.line.fill
                 /\ as_str(test_line) = as_str(prev.line)
                 /\ test_line.status = prev.line.status

\* an insert past the tip of a non-empty line tagged Remote, refused with
\* WriteGap
C19_Witness ==
    /\ call.op = "insert"
    /\ call.ret = Err("WriteGap")
    /\ prev.line.fill >= 1
    /\ call.arg[1] > prev.line.fill
    /\ prev.line.status = "Remote"
    /\ test_line = prev.line

\* C20: overwrite(pos, b) of an acceptable byte succeeds exactly when
\* pos <= fill and pos < C, on a full line too; it then sets buf[pos] = b,
\* raises fill by one only when pos = fill and changes no other byte;
\* otherwise it fails with Full and leaves the line as it was.
C20_Overwrite ==
    LET pos == call.arg[1]
        b == call.arg[2]
    IN  (call.op = "overwrite" /\ acceptable_ascii(b)) =>
           /\ call.ret.ok <=>
                 (pos <= len(prev.line) /\ pos < Cap(prev.line))
           /\ call.ret.ok =>
                 /\ test_line.buf[pos + 1] = b
                 /\ test_line.fill =
                       IF pos = prev.line.fill
                       THEN prev.line.fill + 1
                       ELSE prev.line.fill
                 /\ \A i \in 1..Cap(prev.line) :
                       i # pos + 1 => test_line.buf[i] = prev.line.buf[i]
                 /\ test_line.status = prev.line.status
           /\ ~call.ret.ok =>
                 /\ call.ret = Err("Full")
                 /\ test_line = prev.line

\* an overwrite inside a full line has just replaced a byte by another one
C20_Witness ==
    /\ call.op = "overwrite"
    /\ call.ret.ok
    /\ is_full(prev.line)
    /\ call.arg[1] = 1
    /\ prev.line.buf[2] # call.arg[2]
    /\ as_str(test_line) # as_str(prev.line)
    /\ test_line.fill = prev.line.fill

----------------------------------------------------------------------------
(* C21 .. C30 *)

C22_ExtendAllOrNothing ==
    LET s == call.arg
        fits == len(prev.line) + Len(s) <= Cap(prev.line)
        good == \A i \in 1..Len(s) : acceptable_ascii(s[i])
    IN  call.op = "extend" =>
           IF fits /\ good
           THEN /\ call.ret.ok
                /\ test_line.fill = prev.line.fill + Len(s)
                /\ as_str(test_line) = as_str(prev.line) \o s
                /\ test_line.status = prev.line.status
           ELSE /\ call.ret = IF ~fits THEN Err("Full") ELSE Err("InvalidChar")
                /\ test_line.fill = prev.line.fill
                /\ as_str(test_line) = as_str(prev.line)
                /\ test_line.buf = prev.line.buf

\* an extend of a string that neither fits nor is all acceptable, refused
\* with Full on a line that holds text
C22_Witness ==
    /\ call.op = "extend"
    /\ call.ret = Err("Full")
    /\ \E i \in 1..Len(call.arg) : ~acceptable_ascii(call.arg[i])
    /\ prev.line.fill >= 1
    /\ prev.line.fill < Cap(prev.line)
    /\ test_line = prev.line

\* C23: submit_remote on an engine whose remote zone is empty changes no
\* boundary and no index; in every reachable state a second submit_remote
\* gives the state the first one gave.
C23_SubmitRemoteIdempotent ==
    /\ (call.op = "submit_remote" /\ iter_remote_editable(prev.brick) = <<>>)
          => brick = prev.brick
    /\ submit_remote_editable(submit_remote_editable(brick)) =
          submit_remote_editable(brick)
    /\ call.op = "submit_remote" => submit_remote_editable(brick) = brick

\* a submit_remote made right after one that released two remote lines, next
\* to a local line: the second call found the remote zone empty
C23_Witness ==
    /\ call.op = "submit_remote"
    /\ iter_remote_editable(prev.brick) = <<>>
    /\ brick = prev.brick
    /\ Len(iter_local_editable(brick)) >= 1
    /\ Len(iter_history(brick)) >= 2

\* C24: no Line whose capacity is past 255 exists, so no reachable Line has a
\* fill counter that wrapped modulo 256: a push that succeeds leaves fill one
\* above what it was, and no push ends the program.
C24_FillNeverWraps ==
    call.op = "push" =>
       /\ call.ret.err # "panic"
       /\ call.ret.ok => test_line.fill = prev.line.fill + 1

\* C25: append_local_char and pop_local_char leave the remote-editing zone
\* (its lines, their order, texts and tags) as it was, and append_remote_char
\* and pop_remote_char leave the local-editing zone as it was.
C25_OtherZoneUntouched ==
    /\ call.op \in {"append_local_char", "pop_local_char"} =>
          RemoteLines(Self) = RemoteLines(prev)
    /\ call.op \in {"append_remote_char", "pop_remote_char"} =>
          LocalLines(Self) = LocalLines(prev)

\* what a caller reads of one line: fill, text and tag
LineRead(line) == <<line.fill, as_str(line), line.status>>

\* C26: a line whose slot is in the history before and after a coordinator
\* call reads the same after it (fill, text, tag); a line that was in the
\* history reads differently only when the call was an append whose
\* insert_front moved its slot into an editing zone.
C26_HistoryNeverEdited ==
    \A s \in Range(iter_history(prev.brick)) :
       /\ s \in Range(iter_history(brick)) =>
             LineRead(lines[s]) = LineRead(prev.lines[s])
       /\ LineRead(lines[s]) # LineRead(prev.lines[s]) =>
             /\ call.op \in AppendCalls
             /\ s \in Range(iter_local_editable(brick))
                         \cup Range(iter_remote_editable(brick))
             /\ s \notin Range(iter_local_editable(prev.brick))
                         \cup Range(iter_remote_editable(prev.brick))

\* an append has recycled the oldest of several history lines, which now
\* reads differently in an editing zone, while the newer history lines stay
C26_Witness ==
    /\ call.op \in AppendCalls
    /\ call.ret.ok
    /\ prev.brick.history_end = L
    /\ Len(iter_history(prev.brick)) >= 2
    /\ iter_history(brick) = Front(iter_history(prev.brick))
    /\ LET s == iter_history(prev.brick)[Len(iter_history(prev.brick))]
       IN  /\ LineRead(lines[s]) # LineRead(prev.lines[s])
           /\ prev.lines[s].fill = C

SubmitCalls == {"submit_local", "submit_remote"}

\* C27: over every engine call the history is a FIFO queue: slots enter it
\* only through submit_local or submit_remote and in front of the slots
\* already there; a slot leaves it only through a successful insert made with
\* no free slot, and it is the oldest one; slots in the history before and
\* after a call keep their order.
C27_HistoryIsFifo ==
    LET before == iter_history(prev.brick)
        after == iter_history(brick)
        entered == Range(after) \ Range(before)
        left == Range(before) \ Range(after)
    IN  /\ entered # {} =>
              /\ call.op \in SubmitCalls
              /\ left = {}
              /\ after = SubSeq(after, 1, Cardinality(entered)) \o before
        /\ left # {} =>
              /\ call.op \in InsertCalls
              /\ call.ret.ok
              /\ prev.brick.history_end = L
              /\ left = {before[Len(before)]}
              /\ after = Front(before)
        /\ SameOrder(before, after)

\* a submit_local has put two local entries in front of an older history
\* entry while a remote entry stayed in its zone
C27_Witness ==
    /\ call.op = "submit_local"
    /\ Len(iter_local_editable(prev.brick)) = 2
    /\ Len(iter_remote_editable(prev.brick)) = 1
    /\ Len(iter_history(prev.brick)) = 1
    /\ iter_history(brick) =
          iter_local_editable(prev.brick) \o iter_history(prev.brick)

\* the removed slot is the first free slot, and the insert_front of either
\* zone that follows hands it out again
FirstFreeAgain(b, slot) ==
    /\ b.idx_buf[b.history_end + 1] = slot
    /\ insert_local_editable_front(b).ret = Ok(slot)
    /\ insert_remote_editable_front(b).ret = Ok(slot)

\* C28: pop_front on a zone that holds entries removes its front entry only:
\* the rest of the zone, the other editing zone and the history keep their
\* entries and order, the boundaries at or beyond the zone drop by one (all
\* three for local; remote_end and history_end for remote), and the removed
\* slot becomes the first free slot, which the next insert_front returns;
\* on an empty zone pop_front changes nothing.
C28_PopFront ==
    /\ call.op = "pop_local" =>
          IF iter_local_editable(prev.brick) = <<>>
          THEN brick = prev.brick
          ELSE /\ iter_local_editable(brick) =
                     Tail(iter_local_editable(prev.brick))
               /\ iter_remote_editable(brick) =
                     iter_remote_editable(prev.brick)
               /\ iter_history(brick) = iter_history(prev.brick)
               /\ brick.local_editable_end =
                     prev.brick.local_editable_end - 1
               /\ brick.remote_editable_end =
                     prev.brick.remote_editable_end - 1
               /\ brick.history_end = prev.brick.history_end - 1
               /\ FirstFreeAgain(brick, Head(iter_local_editable(prev.brick)))
               /\ Tail(FreeZone(brick)) = FreeZone(prev.brick)
    /\ call.op = "pop_remote" =>
          IF iter_remote_editable(prev.brick) = <<>>
          THEN brick = prev.brick
          ELSE /\ iter_remote_editable(brick) =
                     Tail(iter_remote_editable(prev.brick))
               /\ iter_local_editable(brick) =
                     iter_local_editable(prev.brick)
               /\ iter_history(brick) = iter_history(prev.brick)
               /\ brick.local_editable_end = prev.brick.local_editable_end
               /\ brick.remote_editable_end =
                     prev.brick.remote_editable_end - 1
               /\ brick.history_end = prev.brick.history_end - 1
               /\ FirstFreeAgain(brick, Head(iter_remote_editable(prev.brick)))
               /\ Tail(FreeZone(brick)) = FreeZone(prev.brick)

\* a pop_front(remote) has removed the newer of two remote entries, next to a
\* local entry and a history entry
C28_Witness ==
    /\ call.op = "pop_remote"
    /\ Len(iter_remote_editable(prev.brick)) = 2
    /\ Len(iter_local_editable(prev.brick)) = 1
    /\ Len(iter_history(prev.brick)) = 1
    /\ brick.idx_buf[L] = Head(iter_remote_editable(prev.brick))
    /\ brick.history_end = L - 1

\* s rotated right by k positions, element by element: the element at
\* 0-based index i comes from index (i - k) mod Len(s)
RotatedBy(s, k) ==
    [i \in 1..Len(s) |-> s[((i - 1 - k) % Len(s)) + 1]]

\* the prefix idx[0..remote_end) of the engine a submit_local was made on
SubmittedPrefix == SubSeq(prev.brick.idx_buf, 1, prev.brick.remote_editable_end)

\* C29 as stated: the idx array submit_local produces is the prefix
\* idx[0..remote_end) rotated right by one position local_end times, once per
\* local-editing entry, followed by the rest of idx.
C29_RotatesPerLocalEntry ==
    call.op = "submit_local" =>
        brick.idx_buf =
           RotRightTimes(SubmittedPrefix, prev.brick.local_editable_end)
              \o SubSeq(prev.brick.idx_buf,
                        prev.brick.remote_editable_end + 1, L)

\* C29 as amended: the idx array submit_local produces is the prefix
\* idx[0..remote_end) rotated right by remote_end - local_end positions, once
\* per remote-editing entry, followed by the rest of idx; local_end rotations
\* give the same array only when one editing zone is empty or both hold the
\* same number of entries.
C29_RotatesPerRemoteEntry ==
    call.op = "submit_local" =>
        LET le == prev.brick.local_editable_end
            re == prev.brick.remote_editable_end
            rest == SubSeq(prev.brick.idx_buf, re + 1, L)
        IN  /\ brick.idx_buf = RotatedBy(SubmittedPrefix, re - le) \o rest
            /\ brick.idx_buf = RotRightTimes(SubmittedPrefix, re - le) \o rest
            /\ (brick.idx_buf = RotRightTimes(SubmittedPrefix, le) \o rest)
                  <=> (le = 0 \/ re = le \/ re - le = le)

\* a submit_local made with two local entries, one remote entry and one
\* history entry: the prefix was rotated once, not twice
C29_Witness ==
    /\ call.op = "submit_local"
    /\ prev.brick.local_editable_end = 2
    /\ prev.brick.remote_editable_end = 3
    /\ prev.brick.history_end = 4
    /\ brick.idx_buf = RotatedBy(SubmittedPrefix, 1) \o <<prev.brick.idx_buf[4]>>
    /\ brick.idx_buf # RotatedBy(SubmittedPrefix, 2) \o <<prev.brick.idx_buf[4]>>

\* the zone an append writes to, and the tag of its party
AppendedZone(self) ==
    IF call.op = "append_local_char" THEN LocalLines(self) ELSE RemoteLines(self)

AppendingParty == IF call.op = "append_local_char" THEN "Local" ELSE "Remote"

\* C30: an append that opens a new editing line (the zone's front was absent
\* or full) leaves that line in front of the zone's older lines, tagged with
\* the appending party and holding the appended byte alone when the append
\* succeeded and no text when it failed: text a recycled line held before
\* never shows in an editing zone.
C30_NewLineIsBlank ==
    LET before == AppendedZone(prev)
        after == AppendedZone(Self)
    IN  (/\ call.op \in AppendCalls
         /\ before = <<>> \/ Len(before[1][2]) = C) =>
            /\ call.ret.ok => Len(after) = Len(before) + 1
            /\ Len(after) = Len(before) + 1 =>
                  /\ Tail(after) = before
                  /\ after[1][3] = AppendingParty
                  /\ after[1][2] = IF call.ret.ok THEN <<call.arg>> ELSE <<>>
            /\ Len(after) # Len(before) + 1 => after = before

\* a remote append has opened a line on the slot of the oldest history line,
\* a full line tagged Local, which now reads as the one byte, tagged Remote
C30_Witness ==
    /\ call.op = "append_remote_char"
    /\ call.ret.ok
    /\ prev.brick.history_end = L
    /\ Len(RemoteLines(Self)) = Len(RemoteLines(prev)) + 1
    /\ LET s == RemoteLines(Self)[1][1]
       IN  /\ s \in Range(iter_history(prev.brick))
           /\ prev.lines[s].fill = C
           /\ prev.lines[s].status = "Local"
           /\ LineRead(lines[s]) = <<1, <<call.arg>>, "Remote">>

----------------------------------------------------------------------------
(* C31 .. C39 *)

\* the tags of a run of lines
TagsOf(ls) == {ls[i][3] : i \in 1..Len(ls)}

\* C31: in every reachable coordinator state every line of the local zone is
\* tagged Local and every line of the remote zone is tagged Remote; the lines
\* a submit_local_editing adds to the history are tagged Local and those a
\* submit_remote_editing adds are tagged Remote.
C31_TagsFollowZones ==
    /\ TagsOf(LocalLines(Self)) \subseteq {"Local"}
    /\ TagsOf(RemoteLines(Self)) \subseteq {"Remote"}
    /\ \A i \in 1..Len(HistoryLines(Self)) :
          HistoryLines(Self)[i][1] \notin Range(iter_history(prev.brick)) =>
             /\ call.op \in {"submit_local_editing", "submit_remote_editing"}
             /\ HistoryLines(Self)[i][3] =
                   IF call.op = "submit_local_editing"
                   THEN "Local"
                   ELSE "Remote"

\* a local line, a remote line and a history that holds a line of each
\* party, the newest one just submitted
C31_Witness ==
    /\ call.op \in {"submit_local_editing", "submit_remote_editing"}
    /\ TagsOf(HistoryLines(Self)) = {"Local", "Remote"}
    /\ Len(HistoryLines(Self)) > Len(HistoryLines(prev))
    /\ brick.history_end = L

\* C32: in every reachable coordinator state every line of an editing zone
\* but the zone's front is full.
C32_OnlyFrontPartial ==
    /\ \A i \in 2..Len(LocalLines(Self)) : Len(LocalLines(Self)[i][2]) = C
    /\ \A i \in 2..Len(RemoteLines(Self)) : Len(RemoteLines(Self)[i][2]) = C

\* a pop_local_char has just emptied the front of two local lines, next to
\* two remote lines whose front holds one byte
C32_Witness ==
    /\ call.op = "pop_local_char"
    /\ Len(LocalLines(Self)) = 2
    /\ LocalLines(Self)[1][2] = <<>>
    /\ LocalLines(prev)[1][2] # <<>>
    /\ Len(RemoteLines(Self)) = 2
    /\ Len(RemoteLines(Self)[1][2]) = 1

\* C33: a submit_local on an empty local zone changes neither the index
\* buffer nor a boundary, whatever the remote zone holds, so a second
\* submit_local in a row changes nothing; release_ue of the coordinator's
\* engine copy behaves the same.
C33_SubmitLocalIdempotent ==
    /\ call.op = "submit_local" /\ prev.brick.local_editable_end = 0 =>
          brick = prev.brick
    /\ submit_local_editable(submit_local_editable(brick)) =
          submit_local_editable(brick)
    /\ brick.local_editable_end = 0 => release_ue(brick) = brick
    /\ release_ue(release_ue(brick)) = release_ue(brick)

\* a submit_local on an empty local zone next to two remote lines and a
\* history line
C33_Witness ==
    /\ call.op = "submit_local"
    /\ prev.brick.local_editable_end = 0
    /\ prev.brick.remote_editable_end >= 2
    /\ prev.brick.history_end > prev.brick.remote_editable_end
    /\ brick = prev.brick

\* C34: push(b) on a line with room and an acceptable b writes b at position
\* fill and adds one to fill; on a full line it returns Full whatever b is; on
\* a line with room and an unacceptable b it returns InvalidChar; a failed
\* push leaves the line as it was; insert(fill, b) returns what push(b)
\* returns and leaves the line push(b) leaves, for every line and byte.
C34_PushAppends ==
    /\ call.op = "push" =>
          /\ (prev.line.fill < Cap(prev.line) /\ acceptable_ascii(call.arg)) =>
                /\ call.ret = Ok(0)
                /\ test_line.fill = prev.line.fill + 1
                /\ as_str(test_line) = Append(as_str(prev.line), call.arg)
                /\ test_line.status = prev.line.status
          /\ prev.line.fill = Cap(prev.line) =>
                call.ret = Err("Full") /\ test_line = prev.line
          /\ (prev.line.fill < Cap(prev.line) /\ ~acceptable_ascii(call.arg)) =>
                call.ret = Err("InvalidChar") /\ test_line = prev.line
    /\ \A b \in LineBytes :
          insert(test_line, len(test_line), b) = push(test_line, b)
    /\ (call.op = "insert" /\ call.arg[1] = prev.line.fill) =>
          /\ test_line = push(prev.line, call.arg[2]).self
          /\ call.ret = push(prev.line, call.arg[2]).ret

\* an insert at the tip of a line that holds a byte has written what a push
\* writes
C34_Witness ==
    /\ call.op = "insert"
    /\ call.arg[1] = prev.line.fill
    /\ prev.line.fill >= 1
    /\ call.ret.ok
    /\ test_line = push(prev.line, call.arg[2]).self

\* C36: pop takes one from fill when fill > 0, the content losing its last
\* byte, and does nothing on an empty line; clear sets fill to 0 and the tag
\* to Local; a successful push followed by a pop gives back the content and
\* the fill the line had.
C36_PopAndClear ==
    /\ (call.op = "pop" /\ prev.line.fill = 0) => test_line = prev.line
    /\ (call.op = "pop" /\ prev.line.fill > 0) =>
          /\ test_line.fill = prev.line.fill - 1
          /\ as_str(test_line) =
                SubSeq(as_str(prev.line), 1, prev.line.fill - 1)
          /\ test_line.status = prev.line.status
    /\ call.op = "clear" =>
          /\ test_line.fill = 0
          /\ as_str(test_line) = <<>>
          /\ test_line.status = "Local"
    /\ \A b \in LineBytes :
          push(test_line, b).ret.ok =>
             /\ pop(push(test_line, b).self).fill = test_line.fill
             /\ as_str(pop(push(test_line, b).self)) = as_str(test_line)
             /\ pop(push(test_line, b).self).status = test_line.status

\* a pop has taken the last byte of a full line tagged Remote
C36_Witness ==
    /\ call.op = "pop"
    /\ prev.line.fill = Cap(prev.line)
    /\ prev.line.status = "Remote"
    /\ test_line.fill = Cap(prev.line) - 1
    /\ push(test_line, 97).ret.ok

\* the bytes 0x20 .. 0x7E
Printable(b) == 32 <= b /\ b <= 126

\* C35: with room in the line and a position no later than the tip, push,
\* insert and overwrite accept a byte exactly when it lies in 0x20 .. 0x7E,
\* and extend accepts a string exactly when all its bytes do; what they
\* reject they reject with InvalidChar, leaving the line as it was.
C35_AcceptedBytes ==
    /\ (call.op = "push" /\ prev.line.fill < Cap(prev.line)) =>
          /\ call.ret.ok <=> Printable(call.arg)
          /\ ~call.ret.ok =>
                call.ret = Err("InvalidChar") /\ test_line = prev.line
    /\ (/\ call.op \in {"insert", "overwrite"}
        /\ prev.line.fill < Cap(prev.line)
        /\ call.arg[1] <= prev.line.fill) =>
          /\ call.ret.ok <=> Printable(call.arg[2])
          /\ ~call.ret.ok =>
                call.ret = Err("InvalidChar") /\ test_line = prev.line
    /\ (/\ call.op = "extend"
        /\ prev.line.fill + Len(call.arg) <= Cap(prev.line)) =>
          /\ call.ret.ok <=> \A i \in 1..Len(call.arg) : Printable(call.arg[i])
          /\ ~call.ret.ok =>
                call.ret = Err("InvalidChar") /\ test_line = prev.line

\* an overwrite of the byte of a one-byte line with DEL (0x7F) has been
\* rejected
C35_Witness ==
    /\ call.op = "overwrite"
    /\ call.arg = <<0, 127>>
    /\ prev.line.fill = 1
    /\ call.ret = Err("InvalidChar")
    /\ as_str(test_line) = <<97>>

\* n calls of pop_local_char in a row
RECURSIVE PopLocalTimes(_, _)
PopLocalTimes(self, n) ==
    IF n = 0 THEN self ELSE PopLocalTimes(pop_local_char(self), n - 1)

\* n calls of pop_remote_char in a row
RECURSIVE PopRemoteTimes(_, _)
PopRemoteTimes(self, n) ==
    IF n = 0 THEN self ELSE PopRemoteTimes(pop_remote_char(self), n - 1)

\* the pops a zone of these lines takes: one per byte and one per line
PopsLeft(ls) ==
    IF ls = <<>>
    THEN 0
    ELSE Len(ls) + Len(Concat(ls))

\* C37: from every reachable coordinator state local_editable_end * (C + 1)
\* calls of pop_local_char leave the local zone empty, every pop on a zone
\* with a line bringing it one pop nearer, and a pop on the empty zone changes
\* nothing; the same holds of pop_remote_char and the remote zone.
C37_PopsEmptyTheZone ==
    /\ PopsLeft(LocalLines(Self)) <= brick.local_editable_end * (C + 1)
    /\ LocalLines(PopLocalTimes(Self, brick.local_editable_end * (C + 1)))
          = <<>>
    /\ LocalLines(Self) = <<>> => pop_local_char(Self) = Self
    /\ (call.op = "pop_local_char" /\ LocalLines(prev) # <<>>) =>
          PopsLeft(LocalLines(Self)) = PopsLeft(LocalLines(prev)) - 1
    /\ PopsLeft(RemoteLines(Self)) <=
          (brick.remote_editable_end - brick.local_editable_end) * (C + 1)
    /\ RemoteLines(PopRemoteTimes(Self,
          (brick.remote_editable_end - brick.local_editable_end) * (C + 1)))
          = <<>>
    /\ RemoteLines(Self) = <<>> => pop_remote_char(Self) = Self
    /\ (call.op = "pop_remote_char" /\ RemoteLines(prev) # <<>>) =>
          PopsLeft(RemoteLines(Self)) = PopsLeft(RemoteLines(prev)) - 1

\* two full local lines, which take all of 2 * (C + 1) pops, after a pop that
\* emptied the remote zone
C37_Witness ==
    /\ call.op = "pop_remote_char"
    /\ RemoteLines(prev) # <<>>
    /\ RemoteLines(Self) = <<>>
    /\ brick.local_editable_end = 2
    /\ PopsLeft(LocalLines(Self)) = 2 * (C + 1)
    /\ LocalLines(PopLocalTimes(Self, 2 * (C + 1) - 1)) # <<>>
    /\ LocalLines(PopLocalTimes(Self, 2 * (C + 1))) = <<>>

\* C39: Line::<C>::cap_u8() returns C for every C <= 255 and panics only for
\* a C above 255.
C39_CapU8 ==
    call.op = "cap_u8" =>
       /\ call.arg <= 255 => call.ret = Ok(call.arg)
       /\ call.ret.err = "panic" => call.arg > 255

\* the payloads of a run of slots
Payloads(store, slots) == [i \in 1..Len(slots) |-> store[slots[i]]]

\* C38: after every sequence of insert_front, pop_front(local), submit_local
\* and submit_remote made on both copies of the engine, with the same payload
\* written into the slot each insert returns, the two copies agree on the
\* three boundaries, on whether the last insert succeeded, and on the
\* payloads of the local zone, of the remote zone and of the history, newest
\* first.
C38_EngineCopiesAgree ==
    /\ brick.local_editable_end = twin.brick.local_editable_end
    /\ brick.remote_editable_end = twin.brick.remote_editable_end
    /\ brick.history_end = twin.brick.history_end
    /\ call.ret.ok = twin.ret.ok
    /\ Payloads(lines, iter_local_editable(brick)) =
          Payloads(twin.lines, iter_local_editable(twin.brick))
    /\ Payloads(lines, iter_remote_editable(brick)) =
          Payloads(twin.lines, iter_remote_editable(twin.brick))
    /\ Payloads(lines, iter_history(brick)) =
          Payloads(twin.lines, iter_history(twin.brick))

\* an insert that returned a different slot in each copy, with lines in all
\* three zones
C38_Witness ==
    /\ call.op \in {"insert_local", "insert_remote"}
    /\ call.ret.ok
    /\ call.ret.val # twin.ret.val
    /\ brick.local_editable_end >= 1
    /\ brick.remote_editable_end > brick.local_editable_end
    /\ brick.history_end > brick.remote_editable_end

====
